---- MODULE Spec2Model ----
(***************************************************************************)
(* HealthPredict front end: the client-side session lifecycle              *)
(* (lib/auth-context.tsx) and the pages that issue authorized fetches      *)
(* (dashboard, history, analytics, predict, profile).                      *)
(*                                                                         *)
(* The browser is single-threaded: every handler runs to its next await    *)
(* in one step.  A fetch followed by response.json() is one suspension     *)
(* (nothing is read or written between the two awaits), and so are the     *)
(* two back-to-back fetches of fetchAnalytics.  React effects run in the   *)
(* step that changed their dependencies.  router.push only requests a      *)
(* navigation; the page is replaced in a later step (NavComplete).         *)
(***************************************************************************)
EXTENDS Integers, Sequences, FiniteSets, TLC

\* ---------------------------------------------------------------- bounds
MaxInFlight == 2        \* requests awaiting a response at one time
MaxFetches == 2         \* fetches one mounted page instance issues

\* ------------------------------------------------------- program constants
CookieDays == 7         \* Cookies.set(..., { expires: 7 })

\* ------------------------------------------------------------ value space
Tokens == {"tA", "tB"}
NoToken == "none"

Null == [id |-> "null", role |-> "null"]
UserOf(tok) == IF tok = "tA" THEN [id |-> "alice", role |-> "user"]
                             ELSE [id |-> "bob", role |-> "admin"]
Users == {UserOf(t) : t \in Tokens}

\* the two AuthProvider sources of the repository
Providers == {"frontend", "root"}

AuthCookie(tok, days) == [name |-> "auth_token", value |-> tok, expires |-> days]

NoData == [seq |-> 0, owner |-> NoToken]
Data(seq, tok) == [seq |-> seq, owner |-> tok]

LoginPath == "/auth/login"
RegisterPath == "/auth/register"
PublicPaths == {"/", LoginPath, RegisterPath}
ProtectedPaths == {"/dashboard", "/history", "/analytics", "/predict", "/profile"}
\* the admin screens: AdminPage, AdminAnalyticsPage, and the analytics
\* screen that is keyed on user.is_admin
AdminPath == "/admin"
AdminAnalyticsPath == "/admin/analytics"
AdminStatsPath == "/admin/stats"
AdminPaths == {AdminPath, AdminAnalyticsPath, AdminStatsPath}
Paths == PublicPaths \cup ProtectedPaths \cup AdminPaths
NoNav == "none"

TimeRanges == {"7", "30"}

\* a rejected fetch is a TypeError whose message names "fetch" in some
\* browsers ("reject") and does not in others ("rejectOther")
AuthOutcomes == {"ok", "non2xx", "non2xxBadBody", "okBadBody", "reject",
                 "rejectOther"}
MeOutcomes == {"ok", "non2xx", "okBadBody", "reject"}
FetchOutcomes == {"ok", "unauthorized", "serverError", "okBadBody", "reject"}

VARIABLES
    provider,   \* which AuthProvider source is built in
    cookies,    \* the browser's cookie jar (only auth_token is ever stored)
    user,       \* AuthProvider: useState<User | null>(null)
    loading,    \* AuthProvider: useState(true)
    authPc,     \* position of the mount effect's checkAuth
    inflight,   \* requests awaiting their response, in issuance order
    page,       \* the mounted page component and its useState values
    nav,        \* navigation requested by router.push, not yet performed
    sinceLogout,\* history: a logout ran and no login/register started since
    last,       \* history: what the last step did
    records,    \* the prediction records a history response carries
    derived     \* the figures the pages derive from `records`

vars == <<provider, cookies, user, loading, authPc, inflight,
          page, nav, sinceLogout, last, records, derived>>

\* the session and page state, which the derivations do not touch
appVars == <<provider, cookies, user, loading, authPc, inflight,
             page, nav, sinceLogout, last>>

session == <<cookies, user, loading>>

\* Cookies.get('auth_token') and the document.cookie lookup of the pages
GetToken(jar) == IF jar = {} THEN NoToken ELSE (CHOOSE c \in jar : TRUE).value

\* the three session states of the state machine
SessionState(ldg, usr) ==
    IF ldg THEN "Unknown" ELSE IF usr = Null THEN "Anonymous" ELSE "Authenticated"

\* a request in flight; seq numbers the fetches of one page instance
Req(op, tok, arg, seq) == [op |-> op, token |-> tok, arg |-> arg, seq |-> seq]

\* what a step did: the handler that ran (or resumed), the outcome of its
\* request, the token a success response of login/register carried, what
\* the handler returned, whether an exception escaped it, and its toast
Ev(op, outcome, resp, ret, threw, toast) ==
    [op |-> op, outcome |-> outcome, resp |-> resp, ret |-> ret,
     threw |-> threw, toast |-> toast]

AuthOps == {"checkAuth", "login", "register"}
AdminOps == {"adminDashboard", "adminAnalytics", "adminStats"}
PageOps == {"stats", "history", "analytics", "predict", "userStats"} \cup AdminOps

\* nothing derived yet
NotDerived == <<>>

\* ------------------------------------------------------------------ pages
\* useState initial values of each page component.  `issued` counts the
\* fetches this mounted instance has sent and `invoked` records that its
\* fetch function has been called.
Symptoms == {"Fever"}

InitPage(p) ==
    CASE p = "/dashboard" ->
            [name |-> p, stats |-> NoData, predictions |-> NoData,
             loadingStats |-> TRUE, issued |-> 0, invoked |-> FALSE]
      [] p = "/history" ->
            [name |-> p, predictions |-> NoData, loadingData |-> TRUE,
             issued |-> 0, invoked |-> FALSE]
      [] p = "/analytics" ->
            [name |-> p, analyticsData |-> NoData, loadingData |-> TRUE,
             timeRange |-> "30", issued |-> 0, invoked |-> FALSE]
      [] p = "/predict" ->
            [name |-> p, selectedSymptoms |-> {}, predicting |-> FALSE,
             result |-> NoData]
      [] p = "/profile" ->
            [name |-> p, stats |-> NoData, issued |-> 0, invoked |-> FALSE]
      [] p = AdminPath ->
            [name |-> p, dashboardData |-> NoData, loadingData |-> TRUE,
             issued |-> 0, invoked |-> FALSE]
      [] p = AdminAnalyticsPath ->
            [name |-> p, analyticsData |-> NoData, loadingData |-> TRUE,
             issued |-> 0, invoked |-> FALSE]
      [] p = AdminStatsPath ->
            [name |-> p, analyticsData |-> NoData, loading |-> TRUE,
             error |-> "none", issued |-> 0]
      [] OTHER -> [name |-> p]

\* a "world" w is what a page handler can change besides the session
World(pg, infl, nv) == [page |-> pg, inflight |-> infl, nav |-> nv]

\* the bounds of the model
Fits(w) ==
    /\ Len(w.inflight) <= MaxInFlight
    /\ (w.page.name \in {"/dashboard", "/history", "/analytics", "/profile"}
                              \cup AdminPaths
            => w.page.issued <= MaxFetches)

\* router.push(target)
Push(w, target) == [w EXCEPT !.nav = target]

\* fetch(url, { headers: { Authorization: `Bearer ${token}` } }) of a page
Send(w, op, token, arg) ==
    [w EXCEPT !.page.issued = @ + 1,
              !.inflight = Append(@, Req(op, token, arg, w.page.issued + 1))]

\* DashboardPage.fetchPredictionStats up to its await
fetchPredictionStats(w, jar) ==
    LET token == GetToken(jar)
        w1 == [w EXCEPT !.page.invoked = TRUE]
    IN  IF token = NoToken
        THEN [w1 EXCEPT !.page.loadingStats = FALSE]
        ELSE Send(w1, "stats", token, "-")

\* HistoryPage.fetchHistory up to its await
fetchHistory(w, jar) ==
    LET token == GetToken(jar)
        w1 == [w EXCEPT !.page.invoked = TRUE]
    IN  IF token = NoToken
        THEN [w1 EXCEPT !.page.loadingData = FALSE]
        ELSE Send([w1 EXCEPT !.page.loadingData = TRUE], "history", token, "-")

\* AnalyticsPage.fetchAnalytics up to its first await
fetchAnalytics(w, jar) ==
    LET token == GetToken(jar)
        w1 == [w EXCEPT !.page.invoked = TRUE]
    IN  IF token = NoToken
        THEN [w1 EXCEPT !.page.loadingData = FALSE]
        ELSE Send([w1 EXCEPT !.page.loadingData = TRUE], "analytics", token,
                  w.page.timeRange)

\* ProfilePage.fetchUserStats up to its await
fetchUserStats(w, jar) ==
    LET token == GetToken(jar)
        w1 == [w EXCEPT !.page.invoked = TRUE]
    IN  IF token = NoToken THEN w1 ELSE Send(w1, "userStats", token, "-")

\* AdminPage.fetchAdminDashboard up to its await
fetchAdminDashboard(w, jar) ==
    LET token == GetToken(jar)
        w1 == [w EXCEPT !.page.invoked = TRUE]
    IN  IF token = NoToken
        THEN [w1 EXCEPT !.page.loadingData = FALSE]
        ELSE Send(w1, "adminDashboard", token, "-")

\* AdminAnalyticsPage.fetchAdminAnalytics up to its first await; without a
\* token it returns through finally
fetchAdminAnalytics(w, jar) ==
    LET token == GetToken(jar)
        w1 == [w EXCEPT !.page.invoked = TRUE]
    IN  IF token = NoToken
        THEN [w1 EXCEPT !.page.loadingData = FALSE]
        ELSE Send([w1 EXCEPT !.page.loadingData = TRUE], "adminAnalytics", token, "1")

\* the admin pages' guard: login for nobody, /dashboard for a user who is
\* not an admin, the fetch for an admin
AdminEffect(w, usr, ldg, fetched) ==
    IF ~ldg /\ usr = Null THEN Push(w, LoginPath)
    ELSE IF usr # Null /\ usr.role # "admin" THEN Push(w, "/dashboard")
    ELSE IF usr # Null /\ usr.role = "admin" THEN fetched
    ELSE w

\* user?.is_admin: the User objects of the session manager carry role and
\* no is_admin field
is_admin(usr) == FALSE

\* localStorage.getItem('token'): no source writes this item
LocalStorageToken == NoToken

\* the is_admin-keyed analytics screen: its effect on [user]
AdminStatsEffect(w, usr) ==
    IF is_admin(usr)
    THEN IF LocalStorageToken = NoToken
         THEN [w EXCEPT !.page.loading = FALSE,
                        !.page.error = "No authentication token found"]
         ELSE Send(w, "adminStats", LocalStorageToken, "-")
    ELSE [w EXCEPT !.page.loading = FALSE, !.page.error = "Admin access required"]

\* faulty variant: a guard that does not wait for the session to be known
RedirectEffect_WhileUnknown(w, usr, ldg) ==
    IF usr = Null THEN Push(w, LoginPath) ELSE w

\* the protected pages' guard: if (!loading && !user) router.push('/auth/login')
RedirectEffect(w, usr, ldg) ==
    IF ~ldg /\ usr = Null THEN Push(w, LoginPath) ELSE w

\* The useEffect hooks of the mounted page, run after a render in which
\* they were mounted or one of their dependencies changed.  setUser with a
\* freshly parsed object changes `user` even when the identity is the same.
PageEffects(w, usr, ldg, jar, mounted, userChanged, loadingChanged) ==
    LET p == w.page.name
        auth == mounted \/ userChanged \/ loadingChanged
    IN  CASE p = "/dashboard" ->
              LET w1 == IF auth THEN RedirectEffect(w, usr, ldg) ELSE w
              IN  IF (mounted \/ userChanged) /\ usr # Null
                  THEN fetchPredictionStats(w1, jar) ELSE w1
          [] p = "/history" ->
              IF ~auth THEN w
              ELSE IF ~ldg /\ usr = Null THEN Push(w, LoginPath)
              ELSE IF usr # Null THEN fetchHistory(w, jar) ELSE w
          [] p = "/analytics" ->
              IF ~auth THEN w
              ELSE IF ~ldg /\ usr = Null THEN Push(w, LoginPath)
              ELSE IF usr # Null THEN fetchAnalytics(w, jar) ELSE w
          [] p = "/predict" ->
              IF auth THEN RedirectEffect(w, usr, ldg) ELSE w
          [] p = "/profile" ->
              IF ~auth THEN w
              ELSE IF ~ldg /\ usr = Null THEN Push(w, LoginPath)
              ELSE IF usr # Null THEN fetchUserStats(w, jar) ELSE w
          [] p = AdminPath ->
              IF auth THEN AdminEffect(w, usr, ldg, fetchAdminDashboard(w, jar)) ELSE w
          [] p = AdminAnalyticsPath ->
              IF auth THEN AdminEffect(w, usr, ldg, fetchAdminAnalytics(w, jar)) ELSE w
          [] p = AdminStatsPath ->
              IF mounted \/ userChanged THEN AdminStatsEffect(w, usr) ELSE w
          [] OTHER -> w

\* a page renders its controls only past its spinner and its `!user` guard
Rendered ==
    /\ page.name \in ProtectedPaths
    /\ ~loading
    /\ user # Null
    /\ (page.name \in {"/history", "/analytics"} => ~page.loadingData)

\* an admin page renders its content past its spinner and its role guard
AdminRendered ==
    /\ page.name \in {AdminPath, AdminAnalyticsPath}
    /\ ~loading
    /\ ~page.loadingData
    /\ user # Null
    /\ user.role = "admin"

\* the is_admin-keyed screen renders its figures past its spinner, its
\* error card and its "Access Denied" card
AdminStatsRendered ==
    /\ page.name = AdminStatsPath
    /\ ~page.loading
    /\ page.error = "none"
    /\ is_admin(user)

\* --------------------------------------------------------- session manager
\* A session handler's result: the session it leaves, whether it called
\* setUser, what it returned, whether an exception escaped it, its toast.
Out(jar, usr, ldg, userSet, ret, threw, toast) ==
    [cookies |-> jar, user |-> usr, loading |-> ldg, userSet |-> userSet,
     ret |-> ret, threw |-> threw, toast |-> toast]

\* faulty variant: the catch branch forgets Cookies.remove
checkAuthResume_KeepsTokenOnThrow(s, outcome, tok) ==
    IF outcome = "ok"
    THEN Out(s.cookies, UserOf(tok), FALSE, TRUE, "void", FALSE, "none")
    ELSE IF outcome = "non2xx"
    THEN Out({}, s.user, FALSE, FALSE, "void", FALSE, "none")
    ELSE Out(s.cookies, s.user, FALSE, FALSE, "void", FALSE, "none")

\* faulty variant: the else branch forgets Cookies.remove
checkAuthResume_KeepsTokenOnRefusal(s, outcome, tok) ==
    IF outcome = "ok"
    THEN Out(s.cookies, UserOf(tok), FALSE, TRUE, "void", FALSE, "none")
    ELSE IF outcome = "non2xx"
    THEN Out(s.cookies, s.user, FALSE, FALSE, "void", FALSE, "none")
    ELSE Out({}, s.user, FALSE, FALSE, "void", FALSE, "none")

\* checkAuth from its await on: response.ok / else / catch / finally
checkAuthResume(s, outcome, tok) ==
    IF outcome = "ok"
    THEN Out(s.cookies, UserOf(tok), FALSE, TRUE, "void", FALSE, "none")
    ELSE Out({}, s.user, FALSE, FALSE, "void", FALSE, "none")

\* error.message of what the catch block caught
ErrorMessage(outcome) ==
    IF outcome = "rejectOther" THEN "Load failed" ELSE "Unexpected token"

\* faulty variant: Cookies.set without { expires: 7 } (a session cookie)
loginResume_SessionCookie(prov, s, outcome, cred) ==
    IF outcome = "ok"
    THEN Out({AuthCookie(cred, 0)}, UserOf(cred),
             IF prov = "frontend" THEN FALSE ELSE s.loading,
             TRUE, "true", FALSE, "Login successful!")
    ELSE Out(s.cookies, s.user, s.loading, FALSE, "false", FALSE, "detail")

\* login from its await on.  `cred` is the identity the credentials belong
\* to: a success response carries that identity's token and user object.
loginResume(prov, s, outcome, cred) ==
    CASE outcome = "ok" ->
            Out({AuthCookie(cred, CookieDays)}, UserOf(cred),
                IF prov = "frontend" THEN FALSE ELSE s.loading,
                TRUE, "true", FALSE, "Login successful!")
      [] outcome = "non2xx" ->
            Out(s.cookies, s.user, s.loading, FALSE, "false", FALSE, "detail")
      [] outcome = "reject" ->
            Out(s.cookies, s.user, s.loading, FALSE, "false", FALSE,
                IF prov = "frontend" THEN "Network error: Cannot reach server"
                                     ELSE "Cannot connect to server")
      [] OTHER ->   \* response.json() threw, or a TypeError without "fetch"
            Out(s.cookies, s.user, s.loading, FALSE, "false", FALSE,
                IF prov = "frontend" THEN "Login failed: " \o ErrorMessage(outcome)
                                     ELSE "Cannot connect to server")

\* faulty variant: a failed registration drops the current session
registerResume_ClearsOnFailure(prov, s, outcome, cred) ==
    IF outcome = "ok"
    THEN Out({AuthCookie(cred, CookieDays)}, UserOf(cred),
             IF prov = "frontend" THEN FALSE ELSE s.loading,
             TRUE, "true", FALSE, "Registration successful!")
    ELSE Out({}, Null, s.loading, TRUE, "false", FALSE, "detail")

\* register from its await on
registerResume(prov, s, outcome, cred) ==
    CASE outcome = "ok" ->
            Out({AuthCookie(cred, CookieDays)}, UserOf(cred),
                IF prov = "frontend" THEN FALSE ELSE s.loading,
                TRUE, "true", FALSE, "Registration successful!")
      [] outcome = "non2xx" ->
            Out(s.cookies, s.user, s.loading, FALSE, "false", FALSE, "detail")
      [] outcome = "reject" ->
            Out(s.cookies, s.user, s.loading, FALSE, "false", FALSE,
                IF prov = "frontend" THEN "Network error: Cannot reach server"
                                     ELSE "Cannot connect to server")
      [] OTHER ->
            Out(s.cookies, s.user, s.loading, FALSE, "false", FALSE,
                IF prov = "frontend" THEN "Registration failed: " \o ErrorMessage(outcome)
                                     ELSE "Cannot connect to server")

\* faulty variant: logout removes the cookie and forgets setUser(null)
logoutEffect_KeepsUser(s) ==
    Out({}, s.user, s.loading, FALSE, "void", FALSE, "Logged out successfully")

\* faulty variant: every signed-in user counts as an administrator
isAdmin_AnyUser(usr) == usr # Null

\* const isAdmin = user?.role === 'admin'
isAdmin(usr) == IF usr = Null THEN FALSE ELSE usr.role = "admin"

\* logout: Cookies.remove, setUser(null), toast, router.push('/')
logoutEffect(s) ==
    Out({}, Null, s.loading, TRUE, "void", FALSE, "Logged out successfully")

Sess == [cookies |-> cookies, user |-> user, loading |-> loading]
Here == World(page, inflight, nav)

RemoveAt(q, i) == SubSeq(q, 1, i - 1) \o SubSeq(q, i + 1, Len(q))
Drop(w, i) == [w EXCEPT !.inflight = RemoveAt(@, i)]

Step == Ev("step", "-", "-", "void", FALSE, "none")

\* Commit a session handler's result o on world w: React re-renders and the
\* mounted page's effects run on what changed.
Commit(o, w, ev) ==
    LET userChanged == o.userSet /\ ~(o.user = Null /\ user = Null)
        loadingChanged == o.loading # loading
        w2 == PageEffects(w, o.user, o.loading, o.cookies, FALSE,
                          userChanged, loadingChanged)
    IN  /\ Fits(w2)
        /\ cookies' = o.cookies
        /\ user' = o.user
        /\ loading' = o.loading
        /\ page' = w2.page
        /\ inflight' = w2.inflight
        /\ nav' = w2.nav
        /\ last' = ev

\* the mount effect of AuthProvider: checkAuth() up to its await
CheckAuth ==
    /\ authPc = "mount"
    /\ LET token == GetToken(cookies)
       IN  IF token = NoToken
           THEN /\ authPc' = "done"
                /\ Commit(Out(cookies, user, FALSE, FALSE, "void", FALSE, "none"),
                          Here, Ev("checkAuth", "noToken", "-", "void", FALSE, "none"))
           ELSE /\ authPc' = "await"
                /\ inflight' = Append(inflight, Req("checkAuth", token, "-", 0))
                /\ last' = Step
                /\ UNCHANGED <<cookies, user, loading, page, nav>>
    /\ UNCHANGED <<provider, records, derived, sinceLogout>>

CheckAuthResolve ==
    \E i \in 1..Len(inflight), outcome \in MeOutcomes :
        /\ inflight[i].op = "checkAuth"
        /\ LET o == checkAuthResume(Sess, outcome, inflight[i].token)
           IN  Commit(o, Drop(Here, i),
                      Ev("checkAuth", outcome, "-", o.ret, o.threw, o.toast))
        /\ authPc' = "done"
        /\ UNCHANGED <<provider, records, derived, sinceLogout>>

Mounted == authPc # "mount"

Login ==
    \E cred \in Tokens :
        /\ Mounted
        /\ page.name = LoginPath
        /\ Len(inflight) < MaxInFlight
        /\ inflight' = Append(inflight, Req("login", NoToken, cred, 0))
        /\ sinceLogout' = FALSE
        /\ last' = Step
        /\ UNCHANGED <<provider, records, derived, cookies, user, loading, authPc, page, nav>>

LoginResolve ==
    \E i \in 1..Len(inflight), outcome \in AuthOutcomes :
        /\ inflight[i].op = "login"
        /\ LET o == loginResume(provider, Sess, outcome, inflight[i].arg)
           IN  Commit(o, Drop(Here, i),
                      Ev("login", outcome,
                         IF outcome = "ok" THEN inflight[i].arg ELSE "-",
                         o.ret, o.threw, o.toast))
        /\ UNCHANGED <<provider, records, derived, authPc, sinceLogout>>

Register ==
    \E cred \in Tokens :
        /\ Mounted
        /\ page.name = RegisterPath
        /\ Len(inflight) < MaxInFlight
        /\ inflight' = Append(inflight, Req("register", NoToken, cred, 0))
        /\ sinceLogout' = FALSE
        /\ last' = Step
        /\ UNCHANGED <<provider, records, derived, cookies, user, loading, authPc, page, nav>>

RegisterResolve ==
    \E i \in 1..Len(inflight), outcome \in AuthOutcomes :
        /\ inflight[i].op = "register"
        /\ LET o == registerResume(provider, Sess, outcome, inflight[i].arg)
           IN  Commit(o, Drop(Here, i),
                      Ev("register", outcome,
                         IF outcome = "ok" THEN inflight[i].arg ELSE "-",
                         o.ret, o.threw, o.toast))
        /\ UNCHANGED <<provider, records, derived, authPc, sinceLogout>>

\* the callers of logout: the dashboard's "Logout" button and the profile
\* page's handleDeleteAccount
Logout ==
    /\ Rendered
    /\ page.name \in {"/dashboard", "/profile"}
    /\ LET o == logoutEffect(Sess)
       IN  Commit(o, Push(Here, "/"), Ev("logout", "-", "-", o.ret, o.threw, o.toast))
    /\ sinceLogout' = TRUE
    /\ UNCHANGED <<provider, records, derived, authPc>>

\* ------------------------------------------------------------ page fetches
\* fetchPredictionStats from its await on
statsResume(pg, outcome, r) ==
    IF outcome = "ok"
    THEN [pg EXCEPT !.stats = Data(r.seq, r.token),
                    !.predictions = Data(r.seq, r.token),
                    !.loadingStats = FALSE]
    ELSE [pg EXCEPT !.loadingStats = FALSE]

\* faulty variant: setLoadingData(false) only on the success path, not in finally
historyResume_StuckOnError(pg, outcome, r) ==
    IF outcome = "ok"
    THEN [pg EXCEPT !.predictions = Data(r.seq, r.token), !.loadingData = FALSE]
    ELSE pg

\* fetchHistory from its await on
historyResume(pg, outcome, r) ==
    IF outcome = "ok"
    THEN [pg EXCEPT !.predictions = Data(r.seq, r.token), !.loadingData = FALSE]
    ELSE [pg EXCEPT !.loadingData = FALSE]

\* fetchAnalytics from its awaits on
analyticsResume(pg, outcome, r) ==
    IF outcome = "ok"
    THEN [pg EXCEPT !.analyticsData = Data(r.seq, r.token), !.loadingData = FALSE]
    ELSE [pg EXCEPT !.loadingData = FALSE]

\* fetchUserStats from its await on
userStatsResume(pg, outcome, r) ==
    IF outcome = "ok" THEN [pg EXCEPT !.stats = Data(r.seq, r.token)] ELSE pg

\* handlePredict from its await on
predictResume(pg, outcome, r) ==
    IF outcome = "ok"
    THEN [pg EXCEPT !.result = Data(r.seq, r.token), !.predicting = FALSE]
    ELSE [pg EXCEPT !.predicting = FALSE]

predictToast(outcome) ==
    IF outcome = "ok" THEN "Prediction completed successfully!"
                      ELSE "Prediction failed. Please try again."

\* faulty variant: a page handler that ends the session on a 401 itself
PageResolve_EndsSessionOn401(op, pg2, i, outcome, toast) ==
    /\ page' = pg2
    /\ inflight' = RemoveAt(inflight, i)
    /\ last' = Ev(op, outcome, "-", "void", FALSE, toast)
    /\ cookies' = IF outcome = "unauthorized" THEN {} ELSE cookies
    /\ user' = IF outcome = "unauthorized" THEN Null ELSE user
    /\ UNCHANGED <<provider, records, derived, loading, authPc, nav, sinceLogout>>

\* a page handler resumes: only the page's own state is written
PageResolve(op, pg2, i, outcome, toast) ==
    /\ page' = pg2
    /\ inflight' = RemoveAt(inflight, i)
    /\ last' = Ev(op, outcome, "-", "void", FALSE, toast)
    /\ UNCHANGED <<provider, records, derived, cookies, user, loading, authPc, nav, sinceLogout>>

StatsResolve ==
    \E i \in 1..Len(inflight), outcome \in FetchOutcomes :
        /\ inflight[i].op = "stats"
        /\ PageResolve("stats", statsResume(page, outcome, inflight[i]), i,
                       outcome, "none")

HistoryResolve ==
    \E i \in 1..Len(inflight), outcome \in FetchOutcomes :
        /\ inflight[i].op = "history"
        /\ PageResolve("history", historyResume(page, outcome, inflight[i]), i,
                       outcome, "none")

AnalyticsResolve ==
    \E i \in 1..Len(inflight), outcome \in FetchOutcomes :
        /\ inflight[i].op = "analytics"
        /\ PageResolve("analytics", analyticsResume(page, outcome, inflight[i]), i,
                       outcome, "none")

UserStatsResolve ==
    \E i \in 1..Len(inflight), outcome \in FetchOutcomes :
        /\ inflight[i].op = "userStats"
        /\ PageResolve("userStats", userStatsResume(page, outcome, inflight[i]), i,
                       outcome, "none")

PredictResolve ==
    \E i \in 1..Len(inflight), outcome \in FetchOutcomes :
        /\ inflight[i].op = "predict"
        /\ PageResolve("predict", predictResume(page, outcome, inflight[i]), i,
                       outcome, predictToast(outcome))

\* fetchAdminDashboard from its await on
adminDashboardResume(pg, outcome, r) ==
    IF outcome = "ok"
    THEN [pg EXCEPT !.dashboardData = Data(r.seq, r.token), !.loadingData = FALSE]
    ELSE [pg EXCEPT !.loadingData = FALSE]

AdminDashboardResolve ==
    \E i \in 1..Len(inflight), outcome \in FetchOutcomes :
        /\ inflight[i].op = "adminDashboard"
        /\ PageResolve("adminDashboard",
                       adminDashboardResume(page, outcome, inflight[i]), i,
                       outcome, "none")

\* fetchAdminAnalytics awaits three fetches in turn: /admin/dashboard,
\* /admin/analytics/usage, /admin/predictions.  arg is the number of the
\* fetch in flight, with "+" while every response so far is usable.
Usable(outcome) == outcome = "ok"
NextStage(arg, outcome) ==
    CASE arg = "1" -> IF Usable(outcome) THEN "2+" ELSE "2-"
      [] arg = "2+" -> IF Usable(outcome) THEN "3+" ELSE "3-"
      [] arg = "2-" -> "3-"
      [] OTHER -> "done"

\* a fetch of the chain resolves and the next one is sent with the token
\* read at the start of the handler; a rejected fetch goes to catch
AdminAnalyticsNext ==
    \E i \in 1..Len(inflight), outcome \in FetchOutcomes \ {"reject"} :
        /\ inflight[i].op = "adminAnalytics"
        /\ inflight[i].arg \in {"1", "2+", "2-"}
        /\ inflight' = Append(RemoveAt(inflight, i),
                              [inflight[i] EXCEPT !.arg = NextStage(@, outcome)])
        /\ last' = Step
        /\ UNCHANGED <<provider, records, derived, cookies, user, loading, authPc,
                       page, nav, sinceLogout>>

\* fetchAdminAnalytics from its last await, or from a rejected fetch, on
adminAnalyticsResume(pg, outcome, r) ==
    IF r.arg = "3+" /\ outcome = "ok"
    THEN [pg EXCEPT !.analyticsData = Data(r.seq, r.token), !.loadingData = FALSE]
    ELSE [pg EXCEPT !.loadingData = FALSE]

AdminAnalyticsResolve ==
    \E i \in 1..Len(inflight), outcome \in FetchOutcomes :
        /\ inflight[i].op = "adminAnalytics"
        /\ inflight[i].arg \in {"3+", "3-"} \/ outcome = "reject"
        /\ PageResolve("adminAnalytics",
                       adminAnalyticsResume(page, outcome, inflight[i]), i,
                       outcome, "none")

\* ------------------------------------------------------------ page controls
\* a page handler starts from a click: the world it leaves is w2
PageStart(w2) ==
    /\ Fits(w2)
    /\ page' = w2.page
    /\ inflight' = w2.inflight
    /\ nav' = w2.nav
    /\ last' = Step
    /\ UNCHANGED <<provider, records, derived, cookies, user, loading, authPc, sinceLogout>>

\* Dashboard "Refresh": setLoadingStats(true); fetchPredictionStats()
RefreshStats ==
    /\ Rendered
    /\ page.name = "/dashboard"
    /\ ~page.loadingStats
    /\ PageStart(fetchPredictionStats([Here EXCEPT !.page.loadingStats = TRUE],
                                      cookies))

\* Analytics "Refresh": onClick={fetchAnalytics}
RefreshAnalytics ==
    /\ Rendered
    /\ page.name = "/analytics"
    /\ PageStart(fetchAnalytics(Here, cookies))

\* Analytics time-range buttons: setTimeRange(days) re-runs the effect
SetTimeRange ==
    \E days \in TimeRanges :
        /\ Rendered
        /\ page.name = "/analytics"
        /\ days # page.timeRange
        /\ PageStart(fetchAnalytics([Here EXCEPT !.page.timeRange = days], cookies))

\* Admin analytics "Refresh": onClick={fetchAdminAnalytics}
RefreshAdminAnalytics ==
    /\ AdminRendered
    /\ page.name = AdminAnalyticsPath
    /\ PageStart(fetchAdminAnalytics(Here, cookies))

\* Predict: toggleSymptom
ToggleSymptom ==
    \E sym \in Symptoms :
        /\ Rendered
        /\ page.name = "/predict"
        /\ page.result = NoData
        /\ page' = [page EXCEPT !.selectedSymptoms =
                        IF sym \in @ THEN @ \ {sym} ELSE @ \cup {sym}]
        /\ last' = Step
        /\ UNCHANGED <<provider, records, derived, cookies, user, loading, authPc, inflight,
                       nav, sinceLogout>>

\* handlePredict up to its await
handlePredict(w, jar) ==
    IF w.page.selectedSymptoms = {}
    THEN w                              \* toast: select at least one symptom
    ELSE LET token == GetToken(jar)
         IN  IF token = NoToken
             THEN Push(w, LoginPath)    \* finally: setPredicting(false)
             ELSE [w EXCEPT !.page.predicting = TRUE,
                            !.inflight = Append(@, Req("predict", token, "-", 0))]

\* the "Predict" button: disabled={selectedSymptoms.length === 0 || predicting}
HandlePredict ==
    /\ Rendered
    /\ page.name = "/predict"
    /\ page.result = NoData
    /\ page.selectedSymptoms # {}
    /\ ~page.predicting
    /\ PageStart(handlePredict(Here, cookies))

\* resetPrediction: "New Prediction" on the result view
ResetPrediction ==
    /\ Rendered
    /\ page.name = "/predict"
    /\ page.result # NoData
    /\ page' = [page EXCEPT !.result = NoData, !.selectedSymptoms = {}]
    /\ last' = Step
    /\ UNCHANGED <<provider, records, derived, cookies, user, loading, authPc, inflight,
                   nav, sinceLogout>>

\* History: downloadReport opens the report URL with the token as a query
\* parameter (or alerts when there is no token); no session or page data
\* is written
DownloadReport ==
    /\ Rendered
    /\ page.name = "/history"
    /\ page.predictions # NoData
    /\ last' = Ev("downloadReport", IF GetToken(cookies) = NoToken THEN "noToken" ELSE "-",
                  "-", "void", FALSE, "none")
    /\ UNCHANGED <<provider, records, derived, cookies, user, loading, authPc, inflight, page,
                   nav, sinceLogout>>

\* Profile: handleSaveProfile only toasts and leaves edit mode
SaveProfile ==
    /\ Rendered
    /\ page.name = "/profile"
    /\ last' = Ev("saveProfile", "-", "-", "void", FALSE,
                  "Profile updated successfully!")
    /\ UNCHANGED <<provider, records, derived, cookies, user, loading, authPc, inflight, page,
                   nav, sinceLogout>>

\* --------------------------------------------------------------- navigation
\* the router replaces the page: the old component unmounts (responses to
\* its requests no longer reach any state), the new one mounts and its
\* effects run
MountPage(p) ==
    LET w == World(InitPage(p), SelectSeq(inflight, LAMBDA r : r.op \in AuthOps),
                   NoNav)
        w2 == PageEffects(w, user, loading, cookies, TRUE, FALSE, FALSE)
    IN  /\ Fits(w2)
        /\ page' = w2.page
        /\ inflight' = w2.inflight
        /\ nav' = w2.nav
        /\ last' = Step
        /\ UNCHANGED <<provider, records, derived, cookies, user, loading, authPc, sinceLogout>>

\* the user follows a link of the current page
Navigate ==
    \E p \in Paths :
        /\ Mounted
        /\ p # page.name
        /\ MountPage(p)

\* a navigation requested by router.push is performed
NavComplete ==
    /\ Mounted
    /\ nav # NoNav
    /\ MountPage(nav)

\* the browser reloads the current URL: only the cookie jar survives;
\* AuthProvider and the page start from their useState initial values
Reload ==
    /\ Mounted
    /\ user' = Null
    /\ loading' = TRUE
    /\ authPc' = "mount"
    /\ inflight' = <<>>
    /\ page' = InitPage(page.name)
    /\ nav' = NoNav
    /\ last' = Ev("load", "-", "-", "void", FALSE, "none")
    /\ UNCHANGED <<provider, records, derived, cookies, sinceLogout>>

InitCookies == {{}, {AuthCookie("tA", CookieDays)}}

Init ==
    /\ provider \in Providers
    /\ cookies \in InitCookies
    /\ user = Null
    /\ loading = TRUE
    /\ authPc = "mount"
    /\ inflight = <<>>
    /\ page \in {InitPage(p) : p \in Paths}
    /\ nav = NoNav
    /\ sinceLogout = FALSE
    /\ last = Ev("load", "-", "-", "void", FALSE, "none")
    /\ records = <<>>
    /\ derived = NotDerived

Next ==
    \/ CheckAuth
    \/ CheckAuthResolve
    \/ Login
    \/ LoginResolve
    \/ Register
    \/ RegisterResolve
    \/ Logout
    \/ StatsResolve
    \/ HistoryResolve
    \/ AnalyticsResolve
    \/ UserStatsResolve
    \/ PredictResolve
    \/ AdminDashboardResolve
    \/ AdminAnalyticsNext
    \/ AdminAnalyticsResolve
    \/ RefreshAdminAnalytics
    \/ RefreshStats
    \/ RefreshAnalytics
    \/ SetTimeRange
    \/ ToggleSymptom
    \/ HandlePredict
    \/ ResetPrediction
    \/ DownloadReport
    \/ SaveProfile
    \/ Navigate
    \/ NavComplete
    \/ Reload

Spec == Init /\ [][Next]_vars

\* ===================================================================
\* Derived figures: what the analytics and history pages compute from the
\* prediction records of a history response
\* ===================================================================
MaxRecords == 3         \* records drawn freely in a history response
TopN == 10              \* .slice(0, 10)
ConfidenceScale == 100  \* pred.overall_confidence * 100

\* overall_confidence is held in quarters: 1, 2, 4 stand for 0.25, 0.5, 1.0
\* predicted_diseases of a record: absent, or a list of disease names
Missing == [present |-> FALSE, list |-> <<>>]
Diseases(names) == [present |-> TRUE, list |-> names]
RiskLevels == {"high", "medium", "low"}

\* created_at falls in the current month or before it
Rec(ds, risk, conf, thisMonth) ==
    [diseases |-> ds, risk |-> risk, conf |-> conf, thisMonth |-> thisMonth]

SampleRecords ==
    { Rec(Diseases(<<"Flu">>), "high", 4, TRUE),
      Rec(Diseases(<<"Flu", "Cold">>), "high", 2, FALSE),
      Rec(Diseases(<<"Cold">>), "low", 2, TRUE),
      Rec(Diseases(<<"Cold", "Flu">>), "medium", 4, TRUE),
      Rec(Diseases(<<"Cold", "Migraine">>), "low", 1, FALSE),
      Rec(Diseases(<<"Flu", "Cold", "Migraine", "Asthma", "Malaria", "Typhoid">>),
          "high", 2, TRUE),
      Rec(Diseases(<<>>), "medium", 1, TRUE),
      Rec(Missing, "low", 1, TRUE) }

\* more distinct primary diagnoses than topDiseases keeps
RosterNames == <<"Asthma", "Bronchitis", "Diabetes", "Eczema", "Gastritis",
                 "Hepatitis", "Influenza", "Jaundice", "Malaria", "Pneumonia",
                 "Typhoid">>
Roster ==
    [i \in 1..Len(RosterNames) |-> Rec(Diseases(<<RosterNames[i]>>), "low", 4, TRUE)]

RECURSIVE SeqsUpTo(_, _)
SeqsUpTo(S, n) ==
    IF n = 0 THEN {<<>>}
    ELSE LET shorter == SeqsUpTo(S, n - 1)
         IN  shorter \cup {Append(q, x) : q \in shorter, x \in S}

Histories ==
    LET tails == SeqsUpTo(SampleRecords, MaxRecords)
    IN  tails \cup {Roster \o t : t \in tails} \cup {t \o Roster : t \in tails}

\* diseaseCount[name] = (diseaseCount[name] || 0) + 1; the object keeps its
\* keys in insertion order
CountOne(dc, name) ==
    IF \E i \in 1..Len(dc) : dc[i].name = name
    THEN [i \in 1..Len(dc) |->
              IF dc[i].name = name THEN [dc[i] EXCEPT !.count = @ + 1] ELSE dc[i]]
    ELSE Append(dc, [name |-> name, count |-> 1])

RECURSIVE CountNames(_, _)
CountNames(dc, names) ==
    IF names = <<>> THEN dc
    ELSE CountNames(CountOne(dc, Head(names)), Tail(names))

\* pred.predicted_diseases?.forEach(...)
CountDiseases(dc, ds) == IF ds.present THEN CountNames(dc, ds.list) ELSE dc

\* history.forEach(...): the disease counts
RECURSIVE CountHistory(_, _)
CountHistory(dc, history) ==
    IF history = <<>> THEN dc
    ELSE CountHistory(CountDiseases(dc, Head(history).diseases), Tail(history))

\* history.forEach(...): confidenceTrend.push(pred.overall_confidence * 100),
\* in quarters of a percent point
confidenceTrend(history) ==
    [i \in 1..Len(history) |-> history[i].conf * ConfidenceScale]

\* faulty variant: a sort that puts a later entry before its equals
InsertByCount_BeforeEquals(sorted, entry) ==
    LET k == Cardinality({i \in 1..Len(sorted) : sorted[i].count > entry.count})
    IN  SubSeq(sorted, 1, k) \o <<entry>> \o SubSeq(sorted, k + 1, Len(sorted))

\* Array.prototype.sort is stable: an entry goes behind the entries whose
\* count is not smaller
InsertByCount(sorted, entry) ==
    LET k == Cardinality({i \in 1..Len(sorted) : sorted[i].count >= entry.count})
    IN  SubSeq(sorted, 1, k) \o <<entry>> \o SubSeq(sorted, k + 1, Len(sorted))

\* .sort(([, a], [, b]) => b - a)
RECURSIVE SortByCountDesc(_, _)
SortByCountDesc(sorted, entries) ==
    IF entries = <<>> THEN sorted
    ELSE SortByCountDesc(InsertByCount(sorted, Head(entries)), Tail(entries))

\* .slice(0, n)
Slice(q, n) == SubSeq(q, 1, IF Len(q) < n THEN Len(q) ELSE n)

RECURSIVE SumSeq(_)
SumSeq(q) == IF q = <<>> THEN 0 ELSE Head(q) + SumSeq(Tail(q))

\* a number held exactly as num / den quarters; den = 0 stands for NaN
Ratio(num, den) == [num |-> num, den |-> den]

\* faulty variant: the mean without the guard for an empty list
avgConfidence_NoGuard(trend) == Ratio(SumSeq(trend), Len(trend))

\* confidenceTrend.length > 0 ? reduce(...) / length : 0
avgConfidence(trend) ==
    IF Len(trend) > 0 THEN Ratio(SumSeq(trend), Len(trend)) ELSE Ratio(0, 1)

\* faulty variant: the total counts only the records that carry diagnoses
processAnalyticsData_CountsDiagnosed(stats, history) ==
    LET diseaseCount == CountHistory(<<>>, history)
    IN  [topDiseases |-> Slice(SortByCountDesc(<<>>, diseaseCount), TopN),
         avgConfidence |-> avgConfidence(confidenceTrend(history)),
         totalPredictions |->
             Cardinality({i \in 1..Len(history) : history[i].diseases.present}),
         diseaseCount |-> diseaseCount]

\* processAnalyticsData(stats, history)
processAnalyticsData(stats, history) ==
    LET diseaseCount == CountHistory(<<>>, history)
    IN  [topDiseases |-> Slice(SortByCountDesc(<<>>, diseaseCount), TopN),
         avgConfidence |-> avgConfidence(confidenceTrend(history)),
         totalPredictions |-> Len(history),
         diseaseCount |-> diseaseCount]

CountRisk(history, level) ==
    Cardinality({i \in 1..Len(history) : history[i].risk = level})

\* the body of GET /predictions/stats/summary for a user with these records
\* (the server is not part of the sources)
serverStats(history) ==
    [total_predictions |-> Len(history),
     predictions_this_month |->
         Cardinality({i \in 1..Len(history) : history[i].thisMonth}),
     high_risk_alerts |-> CountRisk(history, "high"),
     risk_level_distribution |->
         [l \in {x \in RiskLevels : CountRisk(history, x) > 0} |->
              CountRisk(history, l)]]

\* Object.values(...).reduce((a, b) => a + b, 0)
RECURSIVE SumOver(_, _)
SumOver(f, keys) ==
    IF keys = {} THEN 0
    ELSE LET k == CHOOSE x \in keys : TRUE
         IN  f[k] + SumOver(f, keys \ {k})

SumValues(f) == SumOver(f, DOMAIN f)

\* the analytics page's riskDistributionData: labels High / Medium / Low Risk
riskDistributionData(stats) ==
    [high |-> stats.high_risk_alerts,
     medium |-> SumValues(stats.risk_level_distribution) - stats.high_risk_alerts,
     low |-> stats.total_predictions]

\* HistoryPage "Stats Summary": predictions.length and the three filters
historySummary(predictions) ==
    [total |-> Len(predictions),
     high |-> CountRisk(predictions, "high"),
     medium |-> CountRisk(predictions, "medium"),
     low |-> CountRisk(predictions, "low")]

\* ===================================================================
\* The history list: search, risk filter and the alternatives of a card
\* ===================================================================
\* a disease name as the string of its characters
Spelling(name) ==
    CASE name = "Flu" -> <<"F", "l", "u">>
      [] name = "Cold" -> <<"C", "o", "l", "d">>
      [] name = "Migraine" -> <<"M", "i", "g", "r", "a", "i", "n", "e">>
      [] name = "Asthma" -> <<"A", "s", "t", "h", "m", "a">>
      [] name = "Bronchitis" -> <<"B", "r", "o", "n", "c", "h", "i", "t", "i", "s">>
      [] name = "Diabetes" -> <<"D", "i", "a", "b", "e", "t", "e", "s">>
      [] name = "Eczema" -> <<"E", "c", "z", "e", "m", "a">>
      [] name = "Gastritis" -> <<"G", "a", "s", "t", "r", "i", "t", "i", "s">>
      [] name = "Hepatitis" -> <<"H", "e", "p", "a", "t", "i", "t", "i", "s">>
      [] name = "Influenza" -> <<"I", "n", "f", "l", "u", "e", "n", "z", "a">>
      [] name = "Jaundice" -> <<"J", "a", "u", "n", "d", "i", "c", "e">>
      [] name = "Malaria" -> <<"M", "a", "l", "a", "r", "i", "a">>
      [] name = "Pneumonia" -> <<"P", "n", "e", "u", "m", "o", "n", "i", "a">>
      [] name = "Typhoid" -> <<"T", "y", "p", "h", "o", "i", "d">>

\* String.prototype.toLowerCase, one character at a time
LowerChar(c) ==
    CASE c = "A" -> "a"
      [] c = "B" -> "b"
      [] c = "C" -> "c"
      [] c = "D" -> "d"
      [] c = "E" -> "e"
      [] c = "F" -> "f"
      [] c = "G" -> "g"
      [] c = "H" -> "h"
      [] c = "I" -> "i"
      [] c = "J" -> "j"
      [] c = "L" -> "l"
      [] c = "M" -> "m"
      [] c = "P" -> "p"
      [] c = "T" -> "t"
      [] c = "U" -> "u"
      [] OTHER -> c

toLowerCase(str) == [i \in 1..Len(str) |-> LowerChar(str[i])]

\* String.prototype.includes
includes(str, part) ==
    \E k \in 0..(Len(str) - Len(part)) : SubSeq(str, k + 1, k + Len(part)) = part

\* what the search box and the risk select can hold
SearchTerms == {<<>>, <<"f", "l">>, <<"L", "D">>, <<"o">>, <<"z">>}
RiskFilters == {"all"} \cup RiskLevels

\* an expression that evaluates to a value, or raises a TypeError
Returned(value) == [raised |-> FALSE, value |-> value]
Raised == [raised |-> TRUE, value |-> <<>>]

\* faulty variant: the search compares the characters as typed
matchesSearch_CaseSensitive(pred, searchTerm) ==
    \E i \in 1..Len(pred.diseases.list) :
        includes(Spelling(pred.diseases.list[i]), searchTerm)

\* pred.predicted_diseases.some(d => d.disease_name.toLowerCase().includes(...))
matchesSearch(pred, searchTerm) ==
    \E i \in 1..Len(pred.diseases.list) :
        includes(toLowerCase(Spelling(pred.diseases.list[i])), toLowerCase(searchTerm))

\* filterRisk === 'all' || pred.risk_level === filterRisk
matchesFilter(pred, filterRisk) == filterRisk = "all" \/ pred.risk = filterRisk

\* predictions.filter(pred => matchesSearch && matchesFilter): reading .some
\* of a record without predicted_diseases raises
filteredPredictions(predictions, searchTerm, filterRisk) ==
    IF \E i \in 1..Len(predictions) : ~predictions[i].diseases.present
    THEN Raised
    ELSE Returned(SelectSeq(predictions,
                            LAMBDA pred : /\ matchesSearch(pred, searchTerm)
                                          /\ matchesFilter(pred, filterRisk)))

\* confidence_score of the candidate at a rank, in thousandths; no sample
\* score lies on a half percent point
RankScore == <<874, 466, 333, 128, 61, 12>>

\* Math.round(x * 100) and (x * 100).toFixed(0) of a score in thousandths
RoundPercent(permille) == (permille + 5) \div 10

\* .slice(from, to) of a list, zero-based, end exclusive
SliceFrom(q, from, to) ==
    SubSeq(q, from + 1, IF Len(q) < to THEN Len(q) ELSE to)

\* faulty variant: the alternatives start at the primary diagnosis
Alternatives_FromPrimary(names, to) ==
    LET kept == SliceFrom(names, 0, to)
    IN  [j \in 1..Len(kept) |->
             [name |-> kept[j], confidence |-> RoundPercent(RankScore[j])]]

\* predicted_diseases.slice(1, to).map(d => name and rounded confidence)
Alternatives(names, to) ==
    LET kept == SliceFrom(names, 1, to)
    IN  [j \in 1..Len(kept) |->
             [name |-> kept[j], confidence |-> RoundPercent(RankScore[j + 1])]]

\* history card: "Other Possible Conditions", shown when length > 1
historyCard(prediction) ==
    IF ~prediction.diseases.present THEN Raised
    ELSE IF Len(prediction.diseases.list) > 1
         THEN Returned(Alternatives(prediction.diseases.list, 4))
         ELSE Returned(<<>>)

\* handlePredict: alternative_diseases of the result built from the response;
\* reading topDisease.disease_name raises when there is no first candidate
alternative_diseases(data) ==
    IF ~data.diseases.present \/ data.diseases.list = <<>> THEN Raised
    ELSE Returned(Alternatives(data.diseases.list, 5))

\* monthlyTrendData: Week 1..4 as Math.floor of 0.2, 0.3, 0.25, 0.25 of the
\* month's count
monthlyTrendData(stats) ==
    LET n == stats.predictions_this_month
    IN  <<(n * 20) \div 100, (n * 30) \div 100, (n * 25) \div 100, (n * 25) \div 100>>

Has(key) == key \in DOMAIN derived
\* nothing but these figures has been derived: a page renders its own
OnlyDerived(keys) == DOMAIN derived \subseteq keys
AnalyticsFigures == {"processedData", "riskDistributionData", "summary"}
Derive(key, value) ==
    /\ derived' = (key :> value) @@ derived
    /\ UNCHANGED <<records, appVars>>

\* setAnalyticsData({ stats, history, processedData: processAnalyticsData(...) })
ProcessAnalytics ==
    /\ ~Has("processedData")
    /\ OnlyDerived(AnalyticsFigures)
    /\ Derive("processedData",
              processAnalyticsData(serverStats(records), records))

\* the analytics page renders its risk chart from the stats response
RenderRiskDistribution ==
    /\ ~Has("riskDistributionData")
    /\ OnlyDerived(AnalyticsFigures)
    /\ Derive("riskDistributionData", riskDistributionData(serverStats(records)))

\* the history page renders its summary cards from the history response
RenderHistorySummary ==
    /\ ~Has("summary")
    /\ OnlyDerived(AnalyticsFigures)
    /\ Derive("summary", historySummary(records))

\* the history page renders its list for a search term and a risk filter
FilterPredictions ==
    /\ derived = NotDerived
    /\ \E searchTerm \in SearchTerms, filterRisk \in RiskFilters :
           Derive("filteredPredictions",
                  [searchTerm |-> searchTerm, filterRisk |-> filterRisk,
                   result |-> filteredPredictions(records, searchTerm, filterRisk)])

\* the history page renders the alternatives of each card
RenderHistoryCards ==
    /\ ~Has("cards")
    /\ OnlyDerived({"result"})
    /\ records # <<>>
    /\ Derive("cards", [i \in 1..Len(records) |-> historyCard(records[i])])

\* the predict page builds its result from a response, the newest record
ShowPredictionResult ==
    /\ ~Has("result")
    /\ OnlyDerived({"cards"})
    /\ records # <<>>
    /\ Derive("result", [data |-> Head(records),
                         alternative_diseases |-> alternative_diseases(Head(records))])

\* the analytics page renders its monthly trend from the stats response
RenderMonthlyTrend ==
    /\ derived = NotDerived
    /\ Derive("monthlyTrendData", monthlyTrendData(serverStats(records)))

\* the analytics response has just been applied; its history is any of the
\* record lists
DerivedInit ==
    /\ provider = "frontend"
    /\ cookies = {AuthCookie("tA", CookieDays)}
    /\ user = UserOf("tA")
    /\ loading = FALSE
    /\ authPc = "done"
    /\ inflight = <<>>
    /\ page = [InitPage("/analytics") EXCEPT !.analyticsData = Data(1, "tA"),
                                             !.loadingData = FALSE,
                                             !.issued = 1,
                                             !.invoked = TRUE]
    /\ nav = NoNav
    /\ sinceLogout = FALSE
    /\ last = Ev("analytics", "ok", "-", "void", FALSE, "none")
    /\ records \in Histories
    /\ derived = NotDerived

DerivedNext ==
    \/ ProcessAnalytics
    \/ RenderRiskDistribution
    \/ RenderHistorySummary
    \/ FilterPredictions
    \/ RenderHistoryCards
    \/ ShowPredictionResult
    \/ RenderMonthlyTrend

DerivedSpec == DerivedInit /\ [][DerivedNext]_vars

\* ===================================================================
\* Submissions: the handlers that validate their input before anything else
\* ===================================================================
\* a text input holds nothing or some text; a field of a JSON body may also
\* be absent
Undefined == "undefined"
InputValues == {"", "a"}
BodyValues == {Undefined, "", "a"}
\* !value
Falsy(value) == value \in {Undefined, ""}

ContactForms ==
    [name : InputValues, email : InputValues, phone : InputValues,
     subject : {""}, message : InputValues]

\* the contact page: formData, submitting, the requests it has sent, its toast
Contact(formData, submitting, sent, toast) ==
    [formData |-> formData, submitting |-> submitting, sent |-> sent, toast |-> toast]

\* faulty variant: the in-progress flag is raised before the fields are looked at
handleSubmit_FlagFirst(c) ==
    IF Falsy(c.formData.name) \/ Falsy(c.formData.email) \/ Falsy(c.formData.message)
    THEN [c EXCEPT !.submitting = TRUE, !.toast = "Please fill in all required fields"]
    ELSE [c EXCEPT !.submitting = TRUE, !.sent = Append(@, c.formData)]

\* ContactPage.handleSubmit up to its await
handleSubmit(c) ==
    IF Falsy(c.formData.name) \/ Falsy(c.formData.email) \/ Falsy(c.formData.message)
    THEN [c EXCEPT !.toast = "Please fill in all required fields"]
    ELSE [c EXCEPT !.submitting = TRUE, !.sent = Append(@, c.formData)]

\* a request to a mock endpoint and what the endpoint answers
Methods == {"POST", "GET", "OPTIONS"}
\* req.body: the parsed JSON object, or nothing when the request has no body
LoginBodies ==
    [parsed : {TRUE}, email : BodyValues, password : BodyValues]
        \cup {[parsed |-> FALSE, email |-> Undefined, password |-> Undefined]}
RegisterBodies ==
    [parsed : {TRUE}, name : BodyValues, email : BodyValues, password : BodyValues]
        \cup {[parsed |-> FALSE, name |-> Undefined, email |-> Undefined,
                password |-> Undefined]}
Res(status, detail, issued) == [status |-> status, detail |-> detail, issued |-> issued]

\* api/auth/login.js handler; issued tells whether the body carries an
\* access_token and a user
mockLogin(method, body) ==
    IF method = "OPTIONS" THEN Res(200, "", FALSE)
    ELSE IF method # "POST" THEN Res(405, "Method not allowed", FALSE)
    ELSE IF ~body.parsed                       \* destructuring throws: catch
         THEN Res(500, "Internal server error", FALSE)
    ELSE IF Falsy(body.email) \/ Falsy(body.password)
         THEN Res(400, "Email and password are required", FALSE)
         ELSE Res(200, "", TRUE)

\* api/auth/register.js handler
mockRegister(method, body) ==
    IF method = "OPTIONS" THEN Res(200, "", FALSE)
    ELSE IF method # "POST" THEN Res(405, "Method not allowed", FALSE)
    ELSE IF ~body.parsed                       \* destructuring throws: catch
         THEN Res(500, "Internal server error", FALSE)
    ELSE IF Falsy(body.name) \/ Falsy(body.email) \/ Falsy(body.password)
         THEN Res(400, "Name, email, and password are required", FALSE)
         ELSE Res(200, "", TRUE)

\* the contact form is submitted with some field values
SubmitContact ==
    /\ derived = NotDerived
    /\ \E formData \in ContactForms :
           LET before == Contact(formData, FALSE, <<>>, "none")
           IN  Derive("handleSubmit", [before |-> before, after |-> handleSubmit(before)])

\* handlePredict runs on the predict page with some selection of symptoms
SubmitPrediction ==
    /\ derived = NotDerived
    /\ page.name = "/predict"
    /\ Derive("handlePredict", [before |-> Here, after |-> handlePredict(Here, cookies)])

\* a request reaches the mock login endpoint
CallMockLogin ==
    /\ derived = NotDerived
    /\ \E method \in Methods, body \in LoginBodies :
           Derive("mockLogin", [method |-> method, body |-> body,
                                res |-> mockLogin(method, body)])

\* a request reaches the mock registration endpoint
CallMockRegister ==
    /\ derived = NotDerived
    /\ \E method \in Methods, body \in RegisterBodies :
           Derive("mockRegister", [method |-> method, body |-> body,
                                   res |-> mockRegister(method, body)])

\* a signed-in user on the predict page, with or without a symptom selected
SubmitInit ==
    /\ provider = "frontend"
    /\ cookies = {AuthCookie("tA", CookieDays)}
    /\ user = UserOf("tA")
    /\ loading = FALSE
    /\ authPc = "done"
    /\ inflight = <<>>
    /\ page \in {[InitPage("/predict") EXCEPT !.selectedSymptoms = picked] :
                     picked \in SUBSET Symptoms}
    /\ nav = NoNav
    /\ sinceLogout = FALSE
    /\ last = Step
    /\ records = <<>>
    /\ derived = NotDerived

SubmitNext ==
    \/ SubmitContact
    \/ SubmitPrediction
    \/ CallMockLogin
    \/ CallMockRegister

SubmitSpec == SubmitInit /\ [][SubmitNext]_vars

\* ===================================================================
\* Claims
\* ===================================================================
AuthFailures == AuthOutcomes \ {"ok"}
MeFailures == MeOutcomes \ {"ok"}
Resolved(ops) == last.op \in ops
NoneInFlight(op) == \A i \in 1..Len(inflight) : inflight[i].op # op

\* C1: the session starts in Unknown and leaves it only when checkAuth
\* resolves; login, register and logout never move it out of Unknown;
\* Unknown is never re-entered; every later change is Anonymous ->
\* Authenticated by a successful login/register, Authenticated -> Anonymous
\* by logout or an authorization failure, or Authenticated -> Authenticated
\* by a re-login.  (A page load starts a new session.)
C1_Transition ==
    LET a == SessionState(loading, user)
        b == SessionState(loading', user')
        op == last'.op
        authOk == op \in {"login", "register"} /\ last'.outcome = "ok"
    IN  \/ op = "load"
        \/ /\ (a = "Unknown" /\ b # "Unknown") => op = "checkAuth"
           /\ a # "Unknown" => b # "Unknown"
           /\ (a = "Anonymous" /\ b = "Authenticated") => authOk
           /\ (a = "Authenticated" /\ b = "Anonymous") =>
                 \/ op = "logout"
                 \/ last'.outcome \in {"unauthorized", "non2xx"}
           /\ (a = "Authenticated" /\ b = "Authenticated" /\ user' # user)
                 => authOk

C1_SessionStateMachine ==
    /\ SessionState(loading, user) = "Unknown"
    /\ [][C1_Transition]_vars

\* C2: when checkAuth found a token and the identity check ends in a
\* non-success outcome (non-2xx, rejected fetch, unparsable body), the
\* auth_token cookie is removed, checkAuth does not write user (a null user
\* stays null), loading becomes false and no exception escapes.
C2_Transition ==
    (last'.op = "checkAuth" /\ last'.outcome \in MeFailures) =>
        /\ cookies' = {}
        /\ user' = user
        /\ loading' = FALSE
        /\ last'.threw = FALSE

C3_LoginSuccessPersists ==
    (Resolved({"login", "register"}) /\ last.outcome = "ok") =>
        /\ cookies = {[name |-> "auth_token", value |-> last.resp, expires |-> 7]}
        /\ user = UserOf(last.resp)
        /\ last.ret = "true"

C3_Witness ==
    /\ last.op = "login"
    /\ last.outcome = "ok"
    /\ last.resp = "tB"
    /\ GetToken(cookies) = "tB"
    /\ user.id = "bob"

\* C4: a login or register attempt that fails (non-2xx response, transport
\* failure, unparsable body) returns false and leaves the persisted token,
\* the user record and the loading flag as they were, in every session state.
C4_Transition ==
    (last'.op \in {"login", "register"} /\ last'.outcome \in AuthFailures) =>
        /\ cookies' = cookies
        /\ user' = user
        /\ loading' = loading
        /\ last'.ret = "false"

C4_FailedLoginChangesNothing == [][C4_Transition]_vars

C4_Witness ==
    /\ last.op = "register"
    /\ last.outcome = "non2xx"
    /\ user # Null
    /\ cookies # {}
    /\ ~loading

\* C5: logout, in any session state and with any requests in flight,
\* removes the auth_token cookie and sets user to null in one step, and
\* never fails.
C5_LogoutClears ==
    Resolved({"logout"}) =>
        /\ cookies = {}
        /\ user = Null
        /\ last.threw = FALSE

C5_Witness ==
    /\ last.op = "logout"
    /\ Len(inflight) > 0
    /\ cookies = {}
    /\ user = Null

\* C6: after logout, as long as no login or register is started afterwards,
\* the session stays Anonymous: no token is persisted (so a following
\* checkAuth ends without contacting the server and no later authorized
\* call can attach a token), user stays null, and no request carrying a
\* token is sent.
C6_Transition ==
    sinceLogout' =>
        /\ cookies' = {}
        /\ user' = Null
        /\ \A i \in 1..Len(inflight') :
              (i > Len(inflight) /\ sinceLogout) => inflight'[i].token = NoToken

C6_AnonymousAfterLogout == [][C6_Transition]_vars

\* C7: whenever an authorized page call (stats, history, analytics, predict)
\* receives an authorization-failure response, the session moves to
\* Anonymous and the persisted token is cleared.
C7_UnauthorizedEndsSession ==
    (Resolved(PageOps) /\ last.outcome = "unauthorized") =>
        /\ user = Null
        /\ cookies = {}

\* C8: a stats fetch issued before logout whose response arrives after the
\* logout completed writes no stats, predictions or other user-scoped state.
C8_Transition ==
    (last'.op \in {"stats", "userStats"} /\ user = Null) =>
        /\ page'.stats = page.stats
        /\ (page.name = "/dashboard" => page'.predictions = page.predictions)

C8_LateStatsDiscarded == [][C8_Transition]_vars

\* C9: when two analytics/stats fetches of a page overlap and their
\* responses arrive in the opposite order, the displayed data remains that
\* of the later-issued request: a response never replaces data that came
\* from a request issued after its own.
C9_Transition ==
    /\ last'.op = "analytics" =>
          page'.analyticsData.seq >= page.analyticsData.seq
    /\ last'.op \in {"stats", "userStats"} =>
          page'.stats.seq >= page.stats.seq
    /\ last'.op = "history" =>
          page'.predictions.seq >= page.predictions.seq

C9_NoStaleOverwrite == [][C9_Transition]_vars

\* C10: every run of checkAuth, fetchPredictionStats, fetchHistory,
\* fetchAnalytics and handlePredict that resolves (success, non-2xx, thrown
\* error, missing token) ends with its loading flag false, and once such a
\* run was started on the mounted page no state without a request of it in
\* flight has the flag still true.  A page's run is started as soon as a
\* user is signed in on it, so a flag is true without a request only on a
\* page that shows no user and is being redirected.
C10_LoadingFlagsCleared ==
    /\ last.op = "checkAuth" => ~loading
    /\ authPc = "done" => ~loading
    /\ last.op = "stats" => ~page.loadingStats
    /\ last.op \in {"history", "analytics"} => ~page.loadingData
    /\ last.op = "predict" => ~page.predicting
    /\ page.name = "/dashboard" =>
          ((page.invoked /\ NoneInFlight("stats")) => ~page.loadingStats)
    /\ page.name = "/history" =>
          ((page.invoked /\ NoneInFlight("history")) => ~page.loadingData)
    /\ page.name = "/analytics" =>
          ((page.invoked /\ NoneInFlight("analytics")) => ~page.loadingData)
    /\ page.name = "/predict" =>
          (NoneInFlight("predict") => ~page.predicting)
    /\ (page.name \in {"/dashboard", "/history", "/analytics"} /\ user # Null)
          => page.invoked
    /\ (page.name \in {"/dashboard", "/history", "/analytics"}
            /\ ~page.invoked /\ ~loading) => nav = LoginPath

C10_Witness ==
    /\ last.op = "history"
    /\ last.outcome = "reject"
    /\ page.name = "/history"
    /\ page.invoked
    /\ ~page.loadingData
    /\ inflight = <<>>

\* C11: for every login or register attempt, what is surfaced for a network
\* failure (no response) differs from what is surfaced for a non-2xx
\* response, and a non-2xx response is never reported as a connectivity
\* failure.
ConnectivityToasts ==
    {"Network error: Cannot reach server", "Cannot connect to server"}
NetworkFailures == {"reject", "rejectOther"}
ServerRefusals == {"non2xx", "non2xxBadBody"}

C11_NetworkFailureDistinct ==
    (Resolved({"login", "register"}) /\ last.outcome \in ServerRefusals) =>
        /\ last.toast \notin ConnectivityToasts
        /\ \A n \in NetworkFailures, cred \in Tokens :
              last.toast # (IF last.op = "login"
                            THEN loginResume(provider, Sess, n, cred)
                            ELSE registerResume(provider, Sess, n, cred)).toast

\* C12: in every reachable state isAdmin is true exactly when user is
\* present and user.role is 'admin'; it is false whenever user is null
\* (Unknown and Anonymous), and right after a successful login or register
\* it is true only if the role the server returned is 'admin'.
C12_IsAdminDerived ==
    /\ isAdmin(user) <=> (user # Null /\ user.role = "admin")
    /\ user = Null => ~isAdmin(user)
    /\ (Resolved({"login", "register"}) /\ last.outcome = "ok") =>
          (isAdmin(user) <=> UserOf(last.resp).role = "admin")

C12_Witness ==
    /\ last.op = "login"
    /\ last.outcome = "ok"
    /\ user # Null
    /\ user.role = "user"
    /\ ~isAdmin(user)

\* C13: the persisted token and the user record are written only by
\* checkAuth, login, register and logout; every other operation (the pages'
\* fetches, predict, report download, profile edits, navigation) leaves
\* both unchanged.  (A page load starts AuthProvider anew with user = null.)
SessionOps == {"checkAuth", "login", "register", "logout"}

C13_Transition ==
    (cookies' # cookies \/ user' # user) => last'.op \in SessionOps \cup {"load"}

C13_OnlySessionOpsWrite == [][C13_Transition]_vars

C13_Witness ==
    /\ last.op = "predict"
    /\ last.outcome = "unauthorized"
    /\ user # Null
    /\ cookies # {}

\* C14: the step in which a network call fails (checkAuth, login, register,
\* stats, history, analytics, predict) issues no request: the failed request
\* leaves the pending requests and nothing is added, so a new request
\* needs a later event.
CallFailed(ev) ==
    /\ ev.op \in AuthOps \cup PageOps
    /\ ev.outcome \notin {"ok", "noToken", "-"}

C14_Transition ==
    CallFailed(last') =>
        \E i \in 1..Len(inflight) :
            /\ inflight[i].op = last'.op
            /\ inflight' = RemoveAt(inflight, i)

C14_NoAutomaticRetry == [][C14_Transition]_vars

C14_Witness ==
    /\ last.op = "checkAuth"
    /\ last.outcome = "non2xx"
    /\ page.name = "/history"
    /\ user # Null
    /\ ~loading
    /\ NoneInFlight("history")

\* C15: every recoverable failure of a network operation (non-2xx response
\* or transport error in login, register, stats, history, analytics,
\* predict) produces a user-facing notification.
C15_FailureNotifies ==
    (last.op \in {"login", "register"} \cup PageOps /\ CallFailed(last)) =>
        last.toast # "none"

\* ------------------------------------------------ claims on derived figures
\* every disease name a record list mentions, in order of mention
RECURSIVE Mentions(_)
Mentions(h) ==
    IF h = <<>> THEN <<>>
    ELSE (IF Head(h).diseases.present THEN Head(h).diseases.list ELSE <<>>)
             \o Mentions(Tail(h))

NamesOf(q) == {q[i] : i \in 1..Len(q)}
Occurrences(q, name) == Cardinality({i \in 1..Len(q) : q[i] = name})
FirstSeen(q, name) == CHOOSE i \in 1..Len(q) :
                          q[i] = name /\ \A j \in 1..(i - 1) : q[j] # name

IsPrimary(r, name) ==
    r.diseases.present /\ Len(r.diseases.list) > 0 /\ r.diseases.list[1] = name
PrimaryCount(h, name) == Cardinality({i \in 1..Len(h) : IsPrimary(h[i], name)})

\* C16: the count topDiseases reports for a name is the number of records
\* whose primary diagnosis (predicted_diseases[0]) is that name; non-primary
\* candidates contribute nothing.
C16_TopDiseasesCountPrimary ==
    Has("processedData") =>
        LET top == derived.processedData.topDiseases
        IN  \A i \in 1..Len(top) :
                top[i].count = PrimaryCount(records, top[i].name)

\* C17: topDiseases is the first 10 entries of the name/count list ordered
\* by descending count, names with equal counts in the order in which they
\* were first seen in the record list.
C17_TopDiseasesOrdered ==
    Has("processedData") =>
        LET top == derived.processedData.topDiseases
            seen == Mentions(records)
            all == NamesOf(seen)
            Before(a, b) ==
                \/ Occurrences(seen, a) > Occurrences(seen, b)
                \/ /\ Occurrences(seen, a) = Occurrences(seen, b)
                   /\ FirstSeen(seen, a) < FirstSeen(seen, b)
            kept == {top[i].name : i \in 1..Len(top)}
        IN  /\ Len(top) = (IF Cardinality(all) < 10 THEN Cardinality(all) ELSE 10)
            /\ \A i \in 1..Len(top) :
                  /\ top[i].name \in all
                  /\ top[i].count = Occurrences(seen, top[i].name)
            /\ \A i, j \in 1..Len(top) :
                  i < j => Before(top[i].name, top[j].name)
            /\ \A n \in all \ kept : \A i \in 1..Len(top) : Before(top[i].name, n)

C17_Witness ==
    /\ Has("processedData")
    /\ Cardinality(NamesOf(Mentions(records))) > 10
    /\ Len(derived.processedData.topDiseases) = 10
    /\ derived.processedData.topDiseases[1].count = 3
    /\ derived.processedData.topDiseases[2].count = 1
    /\ derived.processedData.topDiseases[10].count = 1

\* C18: the risk-level figures shown (high, medium, low) are each the number
\* of records with that risk level, all three present even when zero, and
\* they sum to the number of records.
RiskFiguresAreCounts(fig) ==
    /\ \A l \in RiskLevels : fig[l] = CountRisk(records, l)
    /\ fig.high + fig.medium + fig.low = Len(records)

C18_RiskFiguresCount ==
    /\ Has("riskDistributionData") =>
          RiskFiguresAreCounts(derived.riskDistributionData)
    /\ Has("summary") => RiskFiguresAreCounts(derived.summary)

C20_AverageConfidence ==
    Has("processedData") =>
        LET avg == derived.processedData.avgConfidence
            total == SumSeq([i \in 1..Len(records) |-> records[i].conf * 100])
        IN  /\ avg.den # 0
            /\ Len(records) = 0 => avg.num = 0
            /\ Len(records) > 0 => avg.num * Len(records) = total * avg.den

C20_Witness ==
    /\ Has("processedData")
    /\ records = <<>>
    /\ derived.processedData.avgConfidence = Ratio(0, 1)

\* C21: with an empty search term and the risk filter "all" the history list
\* keeps every record of a list whose records all carry predicted_diseases,
\* the records with an empty predicted_diseases among them
AllCarryDiseases(predictions) ==
    \A i \in 1..Len(predictions) : predictions[i].diseases.present

C21_EmptyFilterKeepsAll ==
    ( /\ Has("filteredPredictions")
      /\ derived.filteredPredictions.searchTerm = <<>>
      /\ derived.filteredPredictions.filterRisk = "all"
      /\ AllCarryDiseases(records) )
    => /\ ~derived.filteredPredictions.result.raised
       /\ derived.filteredPredictions.result.value = records

\* C22: the list that the filter returns holds exactly the records one of
\* whose disease names contains the search term without regard to case and
\* whose risk level is the selected one (any level under "all"), in their
\* original order, and the input list is left as it was
ContainsIgnoringCase(name, term) ==
    \E k \in 0..(Len(name) - Len(term)) :
        \A j \in 1..Len(term) : LowerChar(name[k + j]) = LowerChar(term[j])

Selected(pred, term, risk) ==
    /\ \E i \in 1..Len(pred.diseases.list) :
           ContainsIgnoringCase(Spelling(pred.diseases.list[i]), term)
    /\ risk = "all" \/ pred.risk = risk

\* out lists, in order, the entries of input at the selected positions
IsSelection(out, input, term, risk) ==
    LET K == {i \in 1..Len(input) : Selected(input[i], term, risk)}
    IN  /\ Len(out) = Cardinality(K)
        /\ \A i \in K : out[Cardinality({k \in K : k <= i})] = input[i]

C22_Transition ==
    ( /\ ~Has("filteredPredictions")
      /\ "filteredPredictions" \in DOMAIN derived'
      /\ ~derived'.filteredPredictions.result.raised )
    => /\ records' = records
       /\ IsSelection(derived'.filteredPredictions.result.value, records,
                      derived'.filteredPredictions.searchTerm,
                      derived'.filteredPredictions.filterRisk)

C22_FilterSelects == [][C22_Transition]_vars

C22_Witness ==
    /\ Has("filteredPredictions")
    /\ ~derived.filteredPredictions.result.raised
    /\ derived.filteredPredictions.searchTerm = <<"f", "l">>
    /\ derived.filteredPredictions.filterRisk = "high"
    /\ Len(derived.filteredPredictions.result.value) = 2
    /\ Len(records) = 3

\* C23: the counts of the trend's buckets add up to the number of records
\* of the trend window, the current month
InWindow(history) == {i \in 1..Len(history) : history[i].thisMonth}

C23_TrendSumsToWindowCount ==
    Has("monthlyTrendData")
    => SumSeq(derived.monthlyTrendData) = Cardinality(InWindow(records))

\* C24: no aggregation and no filter raises on a record without
\* predicted_diseases; such a record counts as one with no diseases
WithEmpty(history) ==
    [i \in 1..Len(history) |->
         IF history[i].diseases.present THEN history[i]
         ELSE [history[i] EXCEPT !.diseases = Diseases(<<>>)]]

C24_MissingDiseasesTolerated ==
    /\ Has("processedData")
       => derived.processedData = processAnalyticsData(serverStats(records),
                                                       WithEmpty(records))
    /\ Has("filteredPredictions")
       => /\ ~derived.filteredPredictions.result.raised
          /\ derived.filteredPredictions.result.value =
                 filteredPredictions(WithEmpty(records),
                                     derived.filteredPredictions.searchTerm,
                                     derived.filteredPredictions.filterRisk).value
    /\ Has("cards")
       => \A i \in 1..Len(records) : ~derived.cards[i].raised

\* C25: a list of alternative diagnoses leaves out the primary one, keeps
\* the candidates in rank order from the second on, holds at most max of
\* them (3 on a history card, 4 in a prediction result) and shows each
\* confidence as the score in percent rounded to the nearest integer
IsNearestPercent(c, permille) == 10 * c - 5 <= permille /\ permille < 10 * c + 5

IsAlternatives(alts, names, max) ==
    /\ Len(alts) <= max
    /\ Len(alts) = (IF Len(names) = 0 THEN 0
                    ELSE IF Len(names) - 1 < max THEN Len(names) - 1 ELSE max)
    /\ \A j \in 1..Len(alts) :
           /\ alts[j].name = names[j + 1]
           /\ alts[j].name # names[1]
           /\ IsNearestPercent(alts[j].confidence, RankScore[j + 1])

C25_AlternativesExcludePrimary ==
    /\ Has("cards")
       => \A i \in 1..Len(records) :
              ~derived.cards[i].raised
              => IsAlternatives(derived.cards[i].value, records[i].diseases.list, 3)
    /\ (Has("result") /\ ~derived.result.alternative_diseases.raised)
       => IsAlternatives(derived.result.alternative_diseases.value,
                         derived.result.data.diseases.list, 4)

C25_Witness ==
    /\ Has("cards")
    /\ Has("result")
    /\ ~derived.result.alternative_diseases.raised
    /\ Len(derived.result.alternative_diseases.value) = 4
    /\ \E i \in 1..Len(records) :
           ~derived.cards[i].raised /\ Len(derived.cards[i].value) = 3

\* C26: a submission that lacks a required input is turned down before any
\* request is sent and before any state is written: handlePredict without
\* a symptom, the contact form without name, email or message, a mock
\* login or registration without one of its fields; predicting and
\* submitting stay false
LacksRequired(formData) ==
    formData.name = "" \/ formData.email = "" \/ formData.message = ""

LacksField(body) == \E f \in DOMAIN body \ {"parsed"} : body[f] \in {Undefined, ""}

C26_MissingInputRejected ==
    /\ (Has("handlePredict") /\ derived.handlePredict.before.page.selectedSymptoms = {})
       => /\ derived.handlePredict.after = derived.handlePredict.before
          /\ ~derived.handlePredict.after.page.predicting
    /\ (Has("handleSubmit") /\ LacksRequired(derived.handleSubmit.before.formData))
       => /\ ~derived.handleSubmit.after.submitting
          /\ derived.handleSubmit.after.sent = <<>>
          /\ derived.handleSubmit.after.formData = derived.handleSubmit.before.formData
    /\ \A key \in {"mockLogin", "mockRegister"} :
           (Has(key) /\ derived[key].method = "POST" /\ LacksField(derived[key].body))
           => derived[key].res.status \in {400, 500} /\ ~derived[key].res.issued

C26_Witness ==
    /\ Has("handleSubmit")
    /\ derived.handleSubmit.before.formData.name = "a"
    /\ derived.handleSubmit.before.formData.email = ""
    /\ derived.handleSubmit.after.toast = "Please fill in all required fields"

\* C27: whatever the interleaving of checkAuth, login, register, logout and
\* their responses, a user held by the session manager has its auth_token
\* cookie in the jar
C27_UserImpliesCookie == user # Null => GetToken(cookies) # NoToken

\* C28: when a user is held and a token is persisted, the user is the
\* identity the token was issued for
C28_UserOwnsToken ==
    (user # Null /\ GetToken(cookies) # NoToken) => user = UserOf(GetToken(cookies))

\* C29: a protected page asks for /auth/login only when the session is
\* Anonymous (loading false and user null), never while it is Unknown, and
\* it sends an authorized request only while a user is held
AsksForLogin ==
    /\ nav # LoginPath
    /\ nav' = LoginPath
    /\ page'.name \in ProtectedPaths \cup AdminPaths

\* the requests of the mounted page that this step has put in flight
PageRequests(q) == SelectSeq(q, LAMBDA r : r.op \in PageOps)
SendsPageRequest ==
    /\ page'.name = page.name
    /\ Len(PageRequests(inflight')) > Len(PageRequests(inflight))

C29_Transition ==
    /\ AsksForLogin => SessionState(loading', user') = "Anonymous"
    /\ SendsPageRequest => user' # Null

PredictWithoutToken ==
    /\ page.name = "/predict"
    /\ page'.name = "/predict"
    /\ page.selectedSymptoms # {}
    /\ GetToken(cookies) = NoToken
    /\ user' = user

C29_AmendedTransition ==
    /\ AsksForLogin => /\ SessionState(loading', user') # "Unknown"
                       /\ \/ SessionState(loading', user') = "Anonymous"
                          \/ PredictWithoutToken
    /\ SendsPageRequest => user' # Null

SendsAdminRequest ==
    /\ page'.name = page.name
    /\ Len(SelectSeq(inflight', LAMBDA r : r.op \in AdminOps))
           > Len(SelectSeq(inflight, LAMBDA r : r.op \in AdminOps))

NonAdminOnAdminScreen ==
    page'.name \in AdminPaths /\ user' # Null /\ user'.role # "admin"

C30_Transition ==
    /\ SendsAdminRequest => (user' # Null /\ user'.role = "admin")
    /\ NonAdminOnAdminScreen
       => /\ nav' = "/dashboard"
          /\ ~AdminRendered'
          /\ ~AdminStatsRendered'

C30_AdminOnly == [][C30_Transition]_vars

====
